---- MODULE Spec2Model ----
(***************************************************************************)
(* neptune-contrib: the XGBoost monitoring callback                        *)
(* (neptunecontrib/monitoring/xgboost.py) and the JSON sync script         *)
(* (neptunecontrib/sync/with_json.py).                                     *)
(*                                                                         *)
(* Python values are records tagged with their Python type, so that        *)
(* isinstance and truthiness are computed the way CPython computes them.   *)
(* Calls into collaborators (neptune, xgboost, graphviz, the shell) either *)
(* return or raise; a raise unwinds the enclosing `with` blocks.           *)
(***************************************************************************)
EXTENDS Integers, Sequences, FiniteSets, TLC

\* ---------------------------------------------------------------- bounds
MaxRounds == 3      \* largest end_iteration the training engine is run with
MaxFolds == 2       \* largest number of cross-validation folds
MaxMetrics == 2     \* longest evaluation_result_list of one event

\* ------------------------------------------------------- Python values
PyNone == [type |-> "NoneType"]
PyBool(b) == [type |-> "bool", b |-> b]
PyInt(n) == [type |-> "int", n |-> n]
PyStr(s) == [type |-> "str", s |-> s]
PyList(items) == [type |-> "list", items |-> items]
PyTuple(items) == [type |-> "tuple", items |-> items]

\* isinstance(v, cls) for the classes the factory tests; bool is a subclass
\* of int in Python.
isinstance(v, cls) ==
    CASE cls = "bool" -> v.type = "bool"
      [] cls = "int" -> v.type \in {"int", "bool"}
      [] cls = "tuple" -> v.type = "tuple"
      [] cls = "list" -> v.type = "list"
      [] OTHER -> FALSE

\* The truth value Python gives a value in a condition.
Truthy(v) ==
    CASE v.type = "NoneType" -> FALSE
      [] v.type = "bool" -> v.b
      [] v.type = "int" -> v.n # 0
      [] v.type = "str" -> v.s # ""
      [] OTHER -> Len(v.items) > 0

\* '{}'.format(v)
Format(v) ==
    CASE v.type = "int" -> ToString(v.n)
      [] v.type = "str" -> v.s
      [] v.type = "bool" -> IF v.b THEN "True" ELSE "False"
      [] OTHER -> "None"

\* ------------------------------------------- arguments the factory is given
LogModelArgs == {PyBool(TRUE), PyBool(FALSE), PyStr("yes")}
LogImportanceArgs == {PyBool(TRUE), PyBool(FALSE), PyInt(1)}
MaxNumFeaturesArgs == {PyNone, PyInt(5), PyBool(TRUE), PyStr("5")}
LogTreeArgs ==
    { PyNone,
      PyTuple(<<PyInt(0)>>),
      PyList(<<>>),
      PyList(<<PyInt(0), PyInt(2), PyInt(5)>>),
      PyList(<<PyStr("a")>>),
      PyStr("0"),
      PyInt(0) }

\* ------------------------------------------------ events of the engine
MetricPairs == {<<"train-rmse", 1>>, <<"eval-rmse", 2>>}
RECURSIVE SeqsUpTo(_, _)
SeqsUpTo(S, n) ==
    IF n = 0 THEN {<<>>}
    ELSE LET shorter == SeqsUpTo(S, n - 1)
         IN  shorter \cup {Append(s, x) : s \in {t \in shorter : Len(t) = n - 1}, x \in S}
\* evaluation_result_list: one (name, value) pair per watched metric, names
\* not repeated.
EvalLists ==
    {l \in SeqsUpTo(MetricPairs, MaxMetrics) :
        \A i, j \in 1..Len(l) : i # j => l[i][1] # l[j][1]}

\* ------------------------------------------- documents given to the sync script
MaxParams == 2      \* most entries of the "parameters" section
ExitCodes == {0, 1, 2}
Keys == {"name", "parameters", "tags", "channels", "properties"}
ParamLines == {<<"lr", "0.1">>, <<"batch_size", "32">>, <<"max_depth", "5">>}
\* The entries of a JSON object: sequences without a repeated key.
ParamSeqs ==
    {p \in SeqsUpTo(ParamLines, MaxParams) :
        \A i, j \in 1..Len(p) : i # j => p[i][1] # p[j][1]}
NoDoc == [valid_json |-> FALSE, keys |-> {}, name |-> "", parameters |-> <<>>]
\* What the file at args.filepath holds: text that is no JSON, or a JSON
\* object with some of the sections.
Docs ==
    {NoDoc} \cup
    {d \in [valid_json : {TRUE}, keys : SUBSET Keys, name : {"", "baseline"},
            parameters : ParamSeqs] :
        /\ d.name = (IF "name" \in d.keys THEN "baseline" ELSE "")
        /\ "parameters" \in d.keys \/ d.parameters = <<>>}

VARIABLES
    session,        \* neptune's process-wide experiment: TRUE when one is running
    args,           \* the arguments neptune_callback was called with
    result,         \* outcome of neptune_callback: "none", "callback" or the exception
    closure,        \* log_model, log_importance, max_num_features, log_tree as captured
    env,            \* the CallbackEnv of the invocation in progress / the last one
    pc,             \* position inside callback(env)
    k,              \* loop position (metric pair, fold or tree, 1-based)
    tmpdirs,        \* the TemporaryDirectory objects that exist: id -> files inside
    ndirs,          \* temporary directories created so far (names are unique)
    calls,          \* calls made to the tracking client, oldest first
    events,         \* the events the callback was invoked with, oldest first
    mark,           \* Len(calls) when the invocation in progress started
    error,          \* the exception that left callback(env), "none" if none did
    spc,            \* sync script: position inside main(args)
    doc,            \* sync script: the document at args.filepath
    files,          \* sync script: generated files in the working directory -> content
    shell,          \* sync script: the commands run through call(..., shell=True)
    exitcode,       \* sync script: exit code of the `neptune run` subprocess, -1 before
    outcome         \* sync script: how main(args) ended

xvars == <<session, args, result, closure, env, pc, k, tmpdirs, ndirs, calls, events, mark, error>>
svars == <<spc, doc, files, shell, exitcode, outcome>>
vars == <<xvars, svars>>

NoArgs == [log_model |-> PyNone, log_importance |-> PyNone,
           max_num_features |-> PyNone, log_tree |-> PyNone]
NoEnv == [iteration |-> -1, end_iteration |-> 0, evaluation_result_list |-> <<>>,
          cvfolds |-> 0, model |-> "none"]

\* The exporter before neptune_callback is called.
ExporterInit ==
    /\ args = NoArgs
    /\ result = [kind |-> "none"]
    /\ closure = NoArgs
    /\ env = NoEnv
    /\ k = 0
    /\ tmpdirs = <<>>
    /\ ndirs = 0
    /\ calls = <<>>
    /\ events = <<>>
    /\ mark = 0
    /\ error = "none"

\* The sync script before main(args) is called.
SyncInit ==
    /\ files = <<>>
    /\ shell = <<>>
    /\ exitcode = -1
    /\ outcome = [kind |-> "none"]

\* A process that uses the exporter: a tracking session may or may not be
\* running when neptune_callback is called.
Init ==
    /\ session \in BOOLEAN
    /\ pc = "factory"
    /\ ExporterInit
    /\ spc = "off"
    /\ doc = NoDoc
    /\ SyncInit

\* A run of `python neptunecontrib.sync.with_json -f <filepath> -p <project>`
\* on any document.
InitSync ==
    /\ session = FALSE
    /\ pc = "off"
    /\ ExporterInit
    /\ spc = "write_main"
    /\ doc \in Docs
    /\ SyncInit

\* ------------------------------------------------------------- factory
\* The assertion that fails first for the given arguments, or "none".
\* neptune_callback, lines 100-112.
FailedAssertion(a) ==
    IF ~isinstance(a.log_model, "bool") THEN "log_model"
    ELSE IF ~isinstance(a.log_importance, "bool") THEN "log_importance"
    ELSE IF a.max_num_features # PyNone /\ ~isinstance(a.max_num_features, "int")
         THEN "max_num_features"
    ELSE IF a.log_tree # PyNone /\ ~isinstance(a.log_tree, "tuple")
                                /\ ~isinstance(a.log_tree, "list")
         THEN "log_tree"
    ELSE "none"

\* log_tree as the closure holds it: a tuple is converted to a list (line 110).
CapturedLogTree(v) == IF isinstance(v, "tuple") THEN PyList(v.items) ELSE v

\* MUTANT of FactoryResult: the arguments are validated before the session is
\* looked up.
FactoryResult_AssertFirst(s, a) ==
    IF FailedAssertion(a) # "none"
    THEN [kind |-> "AssertionError", option |-> FailedAssertion(a),
          got |-> a[FailedAssertion(a)].type]
    ELSE IF ~s THEN [kind |-> "NeptuneException"]
    ELSE [kind |-> "callback"]

\* What neptune_callback(**a) does with the session in state s: raise the
\* NeptuneException of lines 93-98, raise the AssertionError of the first
\* failing assert, or return the callback.
FactoryResult(s, a) ==
    IF ~s THEN [kind |-> "NeptuneException"]
    ELSE IF FailedAssertion(a) # "none"
         THEN [kind |-> "AssertionError", option |-> FailedAssertion(a),
               got |-> a[FailedAssertion(a)].type]
    ELSE [kind |-> "callback"]

neptune_callback ==
    /\ pc = "factory"
    /\ \E lm \in LogModelArgs, li \in LogImportanceArgs,
          mnf \in MaxNumFeaturesArgs, lt \in LogTreeArgs :
         LET a == [log_model |-> lm, log_importance |-> li,
                   max_num_features |-> mnf, log_tree |-> lt]
             r == FactoryResult(session, a)
         IN  /\ args' = a
             /\ result' = r
             /\ closure' = IF r.kind = "callback"
                           THEN [a EXCEPT !.log_tree = CapturedLogTree(a.log_tree)]
                           ELSE closure
             /\ pc' = IF r.kind = "callback" THEN "ready" ELSE "no_callback"
    /\ UNCHANGED <<session, env, k, tmpdirs, ndirs, calls, events, mark, error>>
    /\ UNCHANGED svars

\* ------------------------------------------------------------ callback
\* env.iteration + 1 == env.end_iteration
Final(e) == e.iteration + 1 = e.end_iteration

\* The models the final event exports: one per fold when env.cvfolds is
\* truthy, else env.model (lines 121-125).
NumModels(e) == IF e.cvfolds > 0 THEN e.cvfolds ELSE 1

\* MUTANT of ModelName: every fold is saved under the name of the train case.
ModelName_NoFold(e, i) == "bst.model"

\* The name _log_model is given for the i-th model, i counted from 1 here and
\* from 0 by enumerate (lines 123, 125).
ModelName(e, i) ==
    IF e.cvfolds > 0 THEN "cv-fold-" \o ToString(i - 1) \o "-bst.model" ELSE "bst.model"

\* MUTANT of TreeFileName: trees are named from 1, as the docstring's default
\* ``[1,]`` counts them.
TreeFileName_FromOne(i) == "tree_" \o (IF i.type = "int" THEN ToString(i.n + 1) ELSE Format(i))

\* file_name = 'tree_{}'.format(i), line 136
TreeFileName(i) == "tree_" \o Format(i)

\* MUTANT of AfterImportance: the tree block is not guarded by the final
\* iteration test.
AfterImportance_EveryIteration(c, e) ==
    IF Truthy(c.log_tree) THEN "trees" ELSE "ready"

\* Where control goes once the tree block (lines 133-141) is reached.
AfterImportance(c, e) ==
    IF Final(e) /\ Truthy(c.log_tree) THEN "trees" ELSE "ready"

\* Where control goes once the importance block (lines 128-130) is reached.
AfterModel(c, e) ==
    IF Final(e) /\ Truthy(c.log_importance) THEN "plot_importance" ELSE AfterImportance(c, e)

\* Where control goes once the model block (lines 120-125) is reached.
AfterMetrics(c, e) ==
    IF Final(e) /\ Truthy(c.log_model) THEN "log_model" ELSE AfterModel(c, e)

\* tempfile.TemporaryDirectory.__exit__: the directory and its contents go.
WithExit(dirs, d) == [x \in DOMAIN dirs \ {d} |-> dirs[x]]

\* tempfile.TemporaryDirectory(dir='.').__enter__: a fresh, empty directory.
WithEnter(dirs, d) == [x \in DOMAIN dirs \cup {d} |-> IF x = d THEN {} ELSE dirs[x]]

\* A call raised outside any `with` block: the exception leaves callback(env).
Raise(exc) ==
    /\ pc' = "raised"
    /\ error' = exc
    /\ UNCHANGED <<session, args, result, closure, env, k, tmpdirs, ndirs, calls, events, mark>>
    /\ UNCHANGED svars

\* MUTANT of RaiseInWith: the directory comes from mkdtemp and is removed only
\* at the end of the block, so an exception leaves it behind.
RaiseInWith_Leak(exc) ==
    /\ pc' = "raised"
    /\ error' = exc
    /\ UNCHANGED <<session, args, result, closure, env, k, tmpdirs, ndirs, calls, events, mark>>
    /\ UNCHANGED svars

\* A call raised inside the `with` block of directory ndirs: the block is left
\* through __exit__ and the exception leaves callback(env).
RaiseInWith(exc) ==
    /\ pc' = "raised"
    /\ error' = exc
    /\ tmpdirs' = WithExit(tmpdirs, ndirs)
    /\ UNCHANGED <<session, args, result, closure, env, k, ndirs, calls, events, mark>>
    /\ UNCHANGED svars

\* The training engine calls callback(env): iterations 0, 1, ... of one
\* training run, each with the metrics of that iteration.
callback_begin ==
    /\ pc = "ready"
    /\ \E evals \in EvalLists, last \in 1..MaxRounds, folds \in 0..MaxFolds :
         LET e == [iteration |-> Len(events), end_iteration |-> last,
                   evaluation_result_list |-> evals, cvfolds |-> folds,
                   model |-> IF folds > 0 THEN "None" ELSE "Booster"]
         IN  /\ events # <<>> => last = env.end_iteration /\ folds = env.cvfolds
             /\ Len(events) < last
             /\ env' = e
             /\ events' = Append(events, e)
             /\ pc' = IF evals # <<>> THEN "log_metric" ELSE AfterMetrics(closure, e)
    /\ mark' = Len(calls)
    /\ k' = 1
    /\ UNCHANGED <<session, args, result, closure, tmpdirs, ndirs, calls, error>>
    /\ UNCHANGED svars

\* neptune.log_metric(k, v) for the k-th pair, lines 116-117
log_metric ==
    /\ pc = "log_metric"
    /\ \/ /\ calls' = Append(calls, [op |-> "log_metric",
                                     name |-> env.evaluation_result_list[k][1],
                                     value |-> env.evaluation_result_list[k][2]])
          /\ IF k < Len(env.evaluation_result_list)
             THEN k' = k + 1 /\ pc' = "log_metric"
             ELSE k' = 1 /\ pc' = AfterMetrics(closure, env)
          /\ UNCHANGED <<session, args, result, closure, env, tmpdirs, ndirs, events, mark, error>>
          /\ UNCHANGED svars
       \/ Raise("log_metric")

\* _log_model: with tempfile.TemporaryDirectory(dir='.') as d, line 150
log_model_enter ==
    /\ pc = "log_model"
    /\ ndirs' = ndirs + 1
    /\ tmpdirs' = WithEnter(tmpdirs, ndirs + 1)
    /\ pc' = "save_model"
    /\ UNCHANGED <<session, args, result, closure, env, k, calls, events, mark, error>>
    /\ UNCHANGED svars

\* booster.save_model(path), line 152
save_model ==
    /\ pc = "save_model"
    /\ \/ /\ tmpdirs' = [tmpdirs EXCEPT ![ndirs] = @ \cup {ModelName(env, k)}]
          /\ pc' = "log_artifact"
          /\ UNCHANGED <<session, args, result, closure, env, k, ndirs, calls, events, mark, error>>
          /\ UNCHANGED svars
       \/ RaiseInWith("save_model")

\* neptune.log_artifact(path), line 153, and the end of the `with` block
log_artifact ==
    /\ pc = "log_artifact"
    /\ \/ /\ calls' = Append(calls, [op |-> "log_artifact", dir |-> ndirs,
                                     name |-> ModelName(env, k)])
          /\ tmpdirs' = WithExit(tmpdirs, ndirs)
          /\ IF k < NumModels(env)
             THEN k' = k + 1 /\ pc' = "log_model"
             ELSE k' = 1 /\ pc' = AfterModel(closure, env)
          /\ UNCHANGED <<session, args, result, closure, env, ndirs, events, mark, error>>
          /\ UNCHANGED svars
       \/ RaiseInWith("log_artifact")

\* xgb.plot_importance(env.model, ...), line 129
plot_importance ==
    /\ pc = "plot_importance"
    /\ \/ /\ pc' = "log_importance"
          /\ UNCHANGED <<session, args, result, closure, env, k, tmpdirs, ndirs, calls, events, mark, error>>
          /\ UNCHANGED svars
       \/ Raise("plot_importance")

\* neptune.log_image('feature_importance', importance.figure), line 130
log_importance ==
    /\ pc = "log_importance"
    /\ \/ /\ calls' = Append(calls, [op |-> "log_image", name |-> "feature_importance",
                                     image_name |-> "None"])
          /\ pc' = AfterImportance(closure, env)
          /\ UNCHANGED <<session, args, result, closure, env, k, tmpdirs, ndirs, events, mark, error>>
          /\ UNCHANGED svars
       \/ Raise("log_image")

\* with tempfile.TemporaryDirectory(dir='.') as d, line 134
trees_enter ==
    /\ pc = "trees"
    /\ ndirs' = ndirs + 1
    /\ tmpdirs' = WithEnter(tmpdirs, ndirs + 1)
    /\ k' = 1
    /\ pc' = "to_graphviz"
    /\ UNCHANGED <<session, args, result, closure, env, calls, events, mark, error>>
    /\ UNCHANGED svars

\* tree = xgb.to_graphviz(booster=env.model, num_trees=i, ...), line 137
to_graphviz ==
    /\ pc = "to_graphviz"
    /\ \/ /\ pc' = "render"
          /\ UNCHANGED <<session, args, result, closure, env, k, tmpdirs, ndirs, calls, events, mark, error>>
          /\ UNCHANGED svars
       \/ RaiseInWith("to_graphviz")

\* MUTANT of render: a rendering failure is swallowed and the loop goes on to
\* the next index.
render_Continue ==
    /\ pc = "render"
    /\ \/ /\ tmpdirs' = [tmpdirs EXCEPT ![ndirs] =
                            @ \cup {"tree_" \o Format(closure.log_tree.items[k]),
                                    "tree_" \o Format(closure.log_tree.items[k]) \o ".png"}]
          /\ pc' = "log_tree"
          /\ k' = k
       \/ /\ IF k < Len(closure.log_tree.items)
             THEN k' = k + 1 /\ pc' = "to_graphviz" /\ tmpdirs' = tmpdirs
             ELSE k' = 1 /\ pc' = "raised" /\ tmpdirs' = [x \in DOMAIN tmpdirs \ {ndirs} |-> tmpdirs[x]]
    /\ error' = IF pc' = "raised" THEN "render" ELSE error
    /\ UNCHANGED <<session, args, result, closure, env, ndirs, calls, events, mark>>
    /\ UNCHANGED svars

\* tree.render(filename=file_name, directory=d, format='png'), line 138:
\* graphviz writes the source file and the rendered image.
render ==
    /\ pc = "render"
    /\ \/ /\ tmpdirs' = [tmpdirs EXCEPT ![ndirs] =
                            @ \cup {TreeFileName(closure.log_tree.items[k]),
                                    TreeFileName(closure.log_tree.items[k]) \o ".png"}]
          /\ pc' = "log_tree"
          /\ UNCHANGED <<session, args, result, closure, env, k, ndirs, calls, events, mark, error>>
          /\ UNCHANGED svars
       \/ RaiseInWith("render")

\* neptune.log_image('trees', <d>/<file_name>.png, image_name=file_name),
\* lines 139-141, and after the last index the end of the `with` block
log_tree ==
    /\ pc = "log_tree"
    /\ \/ /\ calls' = Append(calls, [op |-> "log_image", name |-> "trees",
                                     image_name |-> TreeFileName(closure.log_tree.items[k])])
          /\ IF k < Len(closure.log_tree.items)
             THEN k' = k + 1 /\ pc' = "to_graphviz" /\ tmpdirs' = tmpdirs
             ELSE k' = 1 /\ pc' = "ready" /\ tmpdirs' = WithExit(tmpdirs, ndirs)
          /\ UNCHANGED <<session, args, result, closure, env, ndirs, events, mark, error>>
          /\ UNCHANGED svars
       \/ RaiseInWith("log_image")

\* -------------------------------------------------------- sync script
\* main_content.format(experiment_filepath), lines 77-96
MainContent(filepath) == <<"main_content", filepath>>

\* How far write_config_content gets on document d: the exception that stops
\* it ("none" if it returns) and the lines written to the config file by then.
\* json.load raises on text that is no JSON; data['name'] and
\* data['parameters'] raise KeyError on a missing section (lines 100-106).
ConfigError(d) ==
    IF ~d.valid_json THEN "JSONDecodeError"
    ELSE IF "name" \notin d.keys \/ "parameters" \notin d.keys THEN "KeyError"
    ELSE "none"

ConfigContent(d) ==
    IF ~d.valid_json \/ "name" \notin d.keys THEN <<>>
    ELSE IF "parameters" \notin d.keys THEN <<"name: " \o d.name, "", "parameters:">>
    ELSE <<"name: " \o d.name, "", "parameters:">> \o
         [i \in 1..Len(d.parameters) |->
            "   " \o d.parameters[i][1] \o ": " \o d.parameters[i][2]]

\* with open('neptune_sync_main.py', 'w') as main: write_main_content(...)
write_main ==
    /\ spc = "write_main"
    /\ files' = [f \in DOMAIN files \cup {"neptune_sync_main.py"} |->
                    IF f = "neptune_sync_main.py" THEN MainContent("experiment_data.json")
                    ELSE files[f]]
    /\ spc' = "write_config"
    /\ UNCHANGED <<doc, shell, exitcode, outcome>>
    /\ UNCHANGED xvars

\* with open('neptune_sync_config.yaml', 'w') as config:
\*     write_config_content(config, args.filepath)
\* The file exists from the open on; an exception inside leaves main.
write_config ==
    /\ spc = "write_config"
    /\ files' = [f \in DOMAIN files \cup {"neptune_sync_config.yaml"} |->
                    IF f = "neptune_sync_config.yaml" THEN ConfigContent(doc)
                    ELSE files[f]]
    /\ IF ConfigError(doc) = "none"
       THEN spc' = "run" /\ outcome' = outcome
       ELSE spc' = "exit" /\ outcome' = [kind |-> "raised", exc |-> ConfigError(doc)]
    /\ UNCHANGED <<doc, shell, exitcode>>
    /\ UNCHANGED xvars

\* call('neptune run --exclude ... neptune_sync_main.py', shell=True): the
\* return value, the tool's exit code, is not bound to anything.
run ==
    /\ spc = "run"
    /\ \E code \in ExitCodes : exitcode' = code
    /\ shell' = Append(shell, "neptune run")
    /\ spc' = "rm"
    /\ UNCHANGED <<doc, files, outcome>>
    /\ UNCHANGED xvars

\* What main(args) hands back after the tool exited with `code`: the function
\* has no return statement.
MainReturn(code) == [kind |-> "returned", value |-> "None"]

\* MUTANT of rm: the generated files are removed only after a successful run
\* of the tool.
rm_OnlyOnSuccess ==
    /\ spc = "rm"
    /\ IF exitcode = 0
       THEN /\ shell' = Append(shell, "rm")
            /\ files' = [f \in DOMAIN files \ {"neptune_sync_config.yaml", "neptune_sync_main.py"} |->
                            files[f]]
       ELSE UNCHANGED <<shell, files>>
    /\ spc' = "exit"
    /\ outcome' = [kind |-> "returned", value |-> "None"]
    /\ UNCHANGED <<doc, exitcode>>
    /\ UNCHANGED xvars

\* call('rm neptune_sync_config.yaml neptune_sync_main.py', shell=True),
\* after which main returns
rm ==
    /\ spc = "rm"
    /\ shell' = Append(shell, "rm")
    /\ files' = [f \in DOMAIN files \ {"neptune_sync_config.yaml", "neptune_sync_main.py"} |->
                    files[f]]
    /\ spc' = "exit"
    /\ outcome' = MainReturn(exitcode)
    /\ UNCHANGED <<doc, exitcode>>
    /\ UNCHANGED xvars

\* The exit status of the script: 1 when an exception left main, else 0
\* (lines 108-111 do nothing with main's result).
ExitStatus(o) == IF o.kind = "raised" THEN 1 ELSE 0

Next ==
    \/ neptune_callback
    \/ callback_begin
    \/ log_metric
    \/ log_model_enter
    \/ save_model
    \/ log_artifact
    \/ plot_importance
    \/ log_importance
    \/ trees_enter
    \/ to_graphviz
    \/ render
    \/ log_tree

Spec == Init /\ [][Next]_vars

NextSync ==
    \/ write_main
    \/ write_config
    \/ run
    \/ rm

SpecSync == InitSync /\ [][NextSync]_vars

\* ====================================================== properties: exporter
IsPrefix(s, t) == Len(s) <= Len(t) /\ s = SubSeq(t, 1, Len(s))

\* The tracking calls of the invocation in progress (or of the last one).
InvCalls == SubSeq(calls, mark + 1, Len(calls))

\* The log_metric calls one event asks for: one per pair, in the order received.
MetricRound(e) ==
    [i \in 1..Len(e.evaluation_result_list) |->
        [op |-> "log_metric", name |-> e.evaluation_result_list[i][1],
         value |-> e.evaluation_result_list[i][2]]]

RECURSIVE MetricRounds(_)
MetricRounds(evs) ==
    IF evs = <<>> THEN <<>>
    ELSE MetricRounds(SubSeq(evs, 1, Len(evs) - 1)) \o MetricRound(evs[Len(evs)])

AllNonFinal == \A i \in 1..Len(events) : events[i].iteration + 1 # events[i].end_iteration
IsFinalEvent == events # <<>> /\ env.iteration + 1 = env.end_iteration

\* Names of the artifacts / images uploaded by the invocation, in upload order.
ArtifactNames == [i \in 1..Len(SelectSeq(InvCalls, LAMBDA c : c.op = "log_artifact")) |->
                    SelectSeq(InvCalls, LAMBDA c : c.op = "log_artifact")[i].name]
TreeImages == [i \in 1..Len(SelectSeq(InvCalls, LAMBDA c : c.op = "log_image" /\ c.name = "trees")) |->
                 SelectSeq(InvCalls, LAMBDA c : c.op = "log_image" /\ c.name = "trees")[i].image_name]

\* The artifact names the final event is to upload when log_model is true.
WantedArtifacts ==
    IF env.cvfolds > 0
    THEN [i \in 1..env.cvfolds |-> "cv-fold-" \o ToString(i - 1) \o "-bst.model"]
    ELSE <<"bst.model">>

\* The image tags the final event is to upload for a list of int indices.
WantedTrees ==
    IF closure.log_tree.type = "list"
    THEN [i \in 1..Len(closure.log_tree.items) |-> "tree_" \o ToString(closure.log_tree.items[i].n)]
    ELSE <<>>
IntIndices ==
    closure.log_tree.type = "list" =>
        \A i \in 1..Len(closure.log_tree.items) : closure.log_tree.items[i].type = "int"

\* The model block, resp. the tree block, of the invocation is behind: control
\* is past it, or an exception of a later call ended the invocation.
PastModels ==
    \/ pc \in {"plot_importance", "log_importance", "trees", "to_graphviz", "render",
               "log_tree", "ready"}
    \/ pc = "raised" /\ error \in {"plot_importance", "log_image", "to_graphviz", "render"}
Returned == pc = "ready" /\ events # <<>>

\* C1: over any sequence of N invocations with non-final events only, the
\* tracking calls are metric recordings and nothing else (no artifact, no
\* image, whatever log_model, log_importance and log_tree are); they follow
\* the pairs of the events in the order received, and once the N-th invocation
\* has returned they are exactly the N rounds, one call per pair.
C1_NonFinalRoundsOnly ==
    AllNonFinal =>
        /\ \A i \in 1..Len(calls) : calls[i].op = "log_metric"
        /\ IsPrefix(calls, MetricRounds(events))
        /\ Returned => calls = MetricRounds(events)
        /\ ndirs = 0

\* C1 witness: two non-final invocations have returned, four metrics recorded,
\* with model, importance and tree export all switched on.
C1_Witness ==
    /\ Returned /\ AllNonFinal /\ Len(events) = 2 /\ Len(calls) = 4
    /\ closure.log_model = PyBool(TRUE) /\ closure.log_importance = PyBool(TRUE)
    /\ Truthy(closure.log_tree)

\* C2: when no session is active, neptune_callback fails with the session
\* error (NeptuneException, "No currently running Neptune experiment") for
\* every combination of arguments, valid or not: no callback exists, none is
\* ever invoked, and no tracking call is made.
C2_NoSessionFailsFirst ==
    (~session /\ pc # "factory") =>
        /\ result = [kind |-> "NeptuneException"]
        /\ pc = "no_callback"
        /\ events = <<>> /\ calls = <<>>

\* C2 witness: the factory was called without a session on arguments that
\* would also fail validation, and the session error is the one raised.
C2_Witness ==
    /\ ~session /\ pc = "no_callback" /\ result.kind = "NeptuneException"
    /\ args.log_model.type = "str"

\* The declared type of each option: bool, bool, optional int, optional
\* list (or tuple) of int.
HasDeclaredType(a, option) ==
    CASE option = "log_model" -> a.log_model.type = "bool"
      [] option = "log_importance" -> a.log_importance.type = "bool"
      [] option = "max_num_features" -> a.max_num_features.type \in {"NoneType", "int", "bool"}
      [] option = "log_tree" ->
            \/ a.log_tree.type = "NoneType"
            \/ /\ a.log_tree.type \in {"list", "tuple"}
               /\ \A i \in 1..Len(a.log_tree.items) : a.log_tree.items[i].type = "int"
Options == {"log_model", "log_importance", "max_num_features", "log_tree"}

\* C3: with a session active (without one the session error comes first),
\* arguments in which some option has a value of the wrong type make
\* neptune_callback fail with the configuration error (AssertionError), which
\* names a wrong-typed option and the type of its value; no callback is
\* returned and no tracking call is made.
C3_WrongTypeRejected ==
    (session /\ pc # "factory" /\ \E o \in Options : ~HasDeclaredType(args, o)) =>
        /\ result.kind = "AssertionError"
        /\ ~HasDeclaredType(args, result.option)
        /\ result.got = args[result.option].type
        /\ pc = "no_callback"
        /\ events = <<>> /\ calls = <<>>

\* C4: on the final event with log_model true the artifacts uploaded are one
\* per model: bst.model for a single model, cv-fold-<i>-bst.model with
\* distinct i for the folds; never more, and all of them once the model block
\* is behind.  With log_model false, or on a non-final event, none.
C4_OneArtifactPerModel ==
    /\ (IsFinalEvent /\ closure.log_model = PyBool(TRUE)) =>
          /\ IsPrefix(ArtifactNames, WantedArtifacts)
          /\ PastModels => ArtifactNames = WantedArtifacts
          /\ \A i, j \in 1..Len(ArtifactNames) : i # j => ArtifactNames[i] # ArtifactNames[j]
    /\ (~IsFinalEvent \/ closure.log_model = PyBool(FALSE)) => ArtifactNames = <<>>

\* C4 witness: a final cross-validation event has been handled and the two
\* fold models were uploaded under their two names.
C4_Witness ==
    /\ Returned /\ IsFinalEvent /\ env.cvfolds = 2 /\ closure.log_model = PyBool(TRUE)
    /\ ArtifactNames = <<"cv-fold-0-bst.model", "cv-fold-1-bst.model">>

\* C5: on the final event with a non-empty list of int indices, the tree
\* images uploaded are tagged tree_<index>, one per index and in list order:
\* never others, and all of them once the invocation has returned
\* ([0,2,5] gives tree_0, tree_2, tree_5).  With log_tree empty or None, or on
\* a non-final event, no tree image is uploaded.
C5_OneImagePerIndex ==
    /\ (IsFinalEvent /\ Truthy(closure.log_tree) /\ IntIndices) =>
          /\ IsPrefix(TreeImages, WantedTrees)
          /\ Returned => TreeImages = WantedTrees
    /\ (Returned /\ IsFinalEvent
          /\ closure.log_tree = PyList(<<PyInt(0), PyInt(2), PyInt(5)>>)) =>
          TreeImages = <<"tree_0", "tree_2", "tree_5">>
    /\ (~IsFinalEvent \/ closure.log_tree \in {PyNone, PyList(<<>>)}) => TreeImages = <<>>

\* C5 witness: the final event was handled with log_tree=[0,2,5] and the three
\* images are up.
C5_Witness ==
    /\ Returned /\ IsFinalEvent
    /\ closure.log_tree = PyList(<<PyInt(0), PyInt(2), PyInt(5)>>)
    /\ Len(TreeImages) = 3

\* C6: when an invocation of the callback has ended, by returning or by an
\* exception, no temporary directory exists; at most one exists at any time.
C6_TempDirsRemoved ==
    /\ pc \in {"ready", "raised"} => DOMAIN tmpdirs = {}
    /\ Cardinality(DOMAIN tmpdirs) <= 1

\* C6 witness: a model directory and the tree directory were created, the
\* rendering call failed with a file already in the directory, and nothing
\* is left.
C6_Witness ==
    /\ pc = "raised" /\ error = "render" /\ ndirs >= 2 /\ k >= 2
    /\ DOMAIN tmpdirs = {}

\* The tracking calls a whole invocation makes, in order: metrics, model
\* artifacts, importance image, tree images.
WantedCalls ==
    MetricRound(env)
    \o (IF IsFinalEvent /\ closure.log_model = PyBool(TRUE)
        THEN [i \in 1..Len(WantedArtifacts) |-> "log_artifact"] ELSE <<>>)
    \o (IF IsFinalEvent /\ closure.log_importance = PyBool(TRUE)
        THEN <<"feature_importance">> ELSE <<>>)
    \o (IF IsFinalEvent /\ Truthy(closure.log_tree)
        THEN [i \in 1..Len(closure.log_tree.items) |-> "trees"] ELSE <<>>)
CallKinds ==
    [i \in 1..Len(InvCalls) |->
        IF InvCalls[i].op = "log_metric" THEN InvCalls[i]
        ELSE IF InvCalls[i].op = "log_artifact" THEN "log_artifact"
        ELSE InvCalls[i].name]

\* C10: the callback is fail-stop.  The tracking calls of an invocation are
\* always a prefix of metrics, model artifacts, importance image, tree images
\* in that order, the whole of it once the invocation has returned; a failing
\* call ends the invocation with its exception and nothing is recorded after
\* it: a failed metric call leaves the metrics before it only, and a failed
\* to_graphviz or render for the k-th tree leaves the images of the k-1 trees
\* before it only.
C10_FailStop ==
    /\ events # <<>> => IsPrefix(CallKinds, WantedCalls)
    /\ Returned => CallKinds = WantedCalls
    /\ (pc = "raised") <=> (error # "none")
    /\ (pc = "raised" /\ error = "log_metric") => InvCalls = SubSeq(MetricRound(env), 1, k - 1)
    /\ (pc = "raised" /\ error \in {"to_graphviz", "render"}) => Len(TreeImages) = k - 1
    /\ (pc = "raised" /\ error \in {"to_graphviz", "render"} /\ IntIndices) =>
          TreeImages = SubSeq(WantedTrees, 1, k - 1)

\* C10 witness: rendering failed for the second of three trees; the image of
\* the first one is up and no other.
C10_Witness ==
    /\ pc = "raised" /\ error = "render" /\ k = 2
    /\ closure.log_tree = PyList(<<PyInt(0), PyInt(2), PyInt(5)>>)
    /\ TreeImages = <<"tree_0">>

\* ================================================== properties: sync script
Generated == {"neptune_sync_main.py", "neptune_sync_config.yaml"}

\* A document main cannot use: text that is no JSON, or an object without one
\* of the sections main reads.
Malformed(d) == ~d.valid_json \/ ~({"name", "parameters"} \subseteq d.keys)

\* C7: a run on malformed input ends with an error, with neither generated
\* file in existence and without the external tool having been invoked.
C7_MalformedFailsFirst ==
    (spc = "exit" /\ Malformed(doc)) =>
        /\ outcome.kind = "raised"
        /\ DOMAIN files \cap Generated = {}
        /\ shell = <<>>

\* C8: when the external tool exited with a non-zero code, the run of the
\* script ends as a failed sync: main signals the failure to its caller and
\* the script's exit status is not zero.
C8_ExitCodeSurfaced ==
    (spc = "exit" /\ exitcode > 0) =>
        /\ outcome # [kind |-> "returned", value |-> "None"]
        /\ ExitStatus(outcome) # 0

\* C9: the steps of a run come in the order driver script, configuration
\* file, tool, deletion: while the configuration is being generated the driver
\* script exists; when the tool is invoked, and until the deletion, both files
\* exist with their whole content and nothing else was run; and when main has
\* returned after the subprocess step, whatever the exit code, the deletion
\* was run after the tool and neither file exists.
C9_FilesDeletedAfterTool ==
    /\ spc = "write_main" => files = <<>> /\ shell = <<>>
    /\ spc = "write_config" =>
          DOMAIN files = {"neptune_sync_main.py"} /\ shell = <<>> /\ exitcode = -1
    /\ spc = "run" => DOMAIN files = Generated /\ shell = <<>> /\ exitcode = -1
    /\ spc = "rm" =>
          /\ DOMAIN files = Generated /\ shell = <<"neptune run">>
          /\ files["neptune_sync_main.py"] = <<"main_content", "experiment_data.json">>
          /\ Len(files["neptune_sync_config.yaml"]) = 3 + Len(doc.parameters)
    /\ (spc = "exit" /\ exitcode # -1) =>
          /\ DOMAIN files \cap Generated = {}
          /\ shell = <<"neptune run", "rm">>
          /\ outcome.kind = "returned"
    /\ (spc = "exit" /\ exitcode = -1) => shell = <<>>

\* C9 witness: the tool failed with exit code 2 on a document with two
\* parameters, main returned, and the files are gone.
C9_Witness ==
    /\ spc = "exit" /\ exitcode = 2 /\ Len(doc.parameters) = 2
    /\ shell = <<"neptune run", "rm">> /\ files = <<>>
====
